---- MODULE Spec2Model ----
(***************************************************************************)
(* The tree-walking evaluator of src/interpreter.rs: the RuntimeValue sum  *)
(* type, the environment operations declare / assign / lookup, and         *)
(* evaluate with its per-node helpers, as a state machine whose steps are  *)
(* successive calls of evaluate on one environment.                        *)
(*                                                                         *)
(* Integers are two's-complement of IntBits bits (i128 scaled down), the   *)
(* exponent type of pow has ExpBits bits (u32 scaled down).  An overflow   *)
(* of + - * or pow panics in a build with overflow checks and wraps in a   *)
(* build without: the build is chosen in Init.                             *)
(*                                                                         *)
(* A Float is an IEEE class (nan, inf, fin) with a sign and, when finite,  *)
(* an exact dyadic magnitude num/den: on such values + - * / are exact in  *)
(* f64.  A result that f64 would round (a non-dyadic quotient, a powf      *)
(* outside the cases the C standard fixes) is the class "inexact": finite, *)
(* nonzero, sign known, bits not tracked.  Arithmetic on an inexact        *)
(* operand, or a magnitude beyond FloatCap, is outside the model: the      *)
(* outcome is OutOfModel and the step is not taken.                        *)
(***************************************************************************)
EXTENDS Integers, Sequences, FiniteSets, TLC

\* ------------------------------------------------------------- bounds
IntBits == 5
ExpBits == 3
FloatCap == 64
MaxBody == 3
MaxCalls == 2

IntMin == -(2 ^ (IntBits - 1))
IntMax == (2 ^ (IntBits - 1)) - 1
ExpMax == (2 ^ ExpBits) - 1

Names == {"x", "y"}

\* ------------------------------------------------------ RuntimeValue
Null == [kind |-> "Null"]
Integer(i) == [kind |-> "Integer", i |-> i]
Float(cls, neg, num, den) ==
  [kind |-> "Float", cls |-> cls, neg |-> neg, num |-> num, den |-> den]
String(s) == [kind |-> "String", s |-> s]
Boolean(b) == [kind |-> "Boolean", b |-> b]
Array(a) == [kind |-> "Array", a |-> a]

\* ------------------------------------------------------------ Result
Ok(v) == [tag |-> "Ok", value |-> v]
Err(fmt, args) == [tag |-> "Err", fmt |-> fmt, args |-> args]
Panic(why) == [tag |-> "Panic", why |-> why]
OutOfModel == [tag |-> "OutOfModel"]

\* --------------------------------------------------------------- f64
Abs(n) == IF n < 0 THEN -n ELSE n
Max(a, b) == IF a >= b THEN a ELSE b

RECURSIVE GCD(_, _)
GCD(a, b) == IF b = 0 THEN a ELSE GCD(b, a % b)

RECURSIVE IsPow2(_)
IsPow2(n) == n = 1 \/ (n > 1 /\ n % 2 = 0 /\ IsPow2(n \div 2))

FNaN == Float("nan", FALSE, 0, 1)
FInf(neg) == Float("inf", neg, 0, 1)
FZero(neg) == Float("fin", neg, 0, 1)
FInexact(neg) == Float("inexact", neg, 0, 1)
FOob == Float("oob", FALSE, 0, 1)
FOne == Float("fin", FALSE, 1, 1)

\* The finite value (-1)^neg * num/den in lowest terms; den is a power of 2.
FNorm(neg, num, den) ==
  LET g == GCD(num, den)
      n == num \div g
      d == den \div g
  IN IF n > FloatCap \/ d > FloatCap THEN FOob ELSE Float("fin", neg, n, d)

IsZero(f) == f.cls = "fin" /\ f.num = 0
FNeg(f) == IF f.cls \in {"nan", "oob"} THEN f ELSE [f EXCEPT !.neg = ~f.neg]
Untracked(l, r) == l.cls \in {"inexact", "oob"} \/ r.cls \in {"inexact", "oob"}

\* i128 as f64
IntToFloat(i) == FNorm(i < 0, Abs(i), 1)

\* f64 + f64
FAdd(l, r) ==
  IF Untracked(l, r) THEN FOob
  ELSE IF l.cls = "nan" \/ r.cls = "nan" THEN FNaN
  ELSE IF l.cls = "inf" /\ r.cls = "inf"
    THEN (IF l.neg = r.neg THEN l ELSE FNaN)
  ELSE IF l.cls = "inf" THEN l
  ELSE IF r.cls = "inf" THEN r
  ELSE LET d == Max(l.den, r.den)
           a == (IF l.neg THEN -1 ELSE 1) * l.num * (d \div l.den)
              + (IF r.neg THEN -1 ELSE 1) * r.num * (d \div r.den)
       IN IF a = 0 THEN FZero(l.neg /\ r.neg) ELSE FNorm(a < 0, Abs(a), d)

\* f64 - f64
FSub(l, r) == FAdd(l, FNeg(r))

\* f64 * f64
FMul(l, r) ==
  IF Untracked(l, r) THEN FOob
  ELSE IF l.cls = "nan" \/ r.cls = "nan" THEN FNaN
  ELSE IF (l.cls = "inf" /\ IsZero(r)) \/ (IsZero(l) /\ r.cls = "inf") THEN FNaN
  ELSE IF l.cls = "inf" \/ r.cls = "inf" THEN FInf(l.neg # r.neg)
  ELSE FNorm(l.neg # r.neg, l.num * r.num, l.den * r.den)

\* f64 / f64: a zero divisor gives an infinity or NaN
FDiv(l, r) ==
  IF Untracked(l, r) THEN FOob
  ELSE IF l.cls = "nan" \/ r.cls = "nan" THEN FNaN
  ELSE IF l.cls = "inf" /\ r.cls = "inf" THEN FNaN
  ELSE IF l.cls = "inf" THEN FInf(l.neg # r.neg)
  ELSE IF r.cls = "inf" THEN FZero(l.neg # r.neg)
  ELSE IF IsZero(r) THEN (IF IsZero(l) THEN FNaN ELSE FInf(l.neg # r.neg))
  ELSE IF IsZero(l) THEN FZero(l.neg # r.neg)
  ELSE LET n == l.num * r.den
           d == l.den * r.num
           g == GCD(n, d)
       IN IF IsPow2(d \div g) THEN FNorm(l.neg # r.neg, n \div g, d \div g)
          ELSE FInexact(l.neg # r.neg)

IsInt(f) == f.cls = "fin" /\ f.den = 1
IsOddInt(f) == IsInt(f) /\ f.num % 2 = 1
\* |l| compared with 1: -1, 0 or 1 (l finite or infinite)
MagVsOne(l) ==
  IF l.cls = "inf" THEN 1
  ELSE IF l.num > l.den THEN 1 ELSE IF l.num = l.den THEN 0 ELSE -1

\* f64::powf: the cases C's pow fixes exactly; any other result is rounded
FPow(l, r) ==
  IF l.cls = "oob" \/ r.cls = "oob" THEN FOob
  ELSE IF r.cls = "fin" /\ r.num = 0 THEN FOne
  ELSE IF l = FOne THEN FOne
  ELSE IF Untracked(l, r) THEN FOob
  ELSE IF l.cls = "nan" \/ r.cls = "nan" THEN FNaN
  ELSE IF IsZero(l) THEN
    (IF r.neg THEN FInf(l.neg /\ IsOddInt(r)) ELSE FZero(l.neg /\ IsOddInt(r)))
  ELSE IF r.cls = "inf" THEN
    (IF MagVsOne(l) = 0 THEN FOne
     ELSE IF (MagVsOne(l) < 0) = r.neg THEN FInf(FALSE) ELSE FZero(FALSE))
  ELSE IF l.cls = "inf" THEN
    (IF r.neg THEN FZero(l.neg /\ IsOddInt(r)) ELSE FInf(l.neg /\ IsOddInt(r)))
  ELSE IF l.neg /\ ~IsInt(r) THEN FNaN
  ELSE FInexact(l.neg /\ IsOddInt(r))

\* --------------------------------------------------------------- Node
\* (the fields of every record are written in the order TLC sorts them)
Scope(body) == [body |-> body, type |-> "Scope"]
IntegerLiteral(i) == [i |-> i, type |-> "IntegerLiteral"]
StringLiteral(s) == [s |-> s, type |-> "StringLiteral"]
FloatLiteral(f) == [f |-> f, type |-> "FloatLiteral"]
Identifier(name) == [type |-> "Identifier", name |-> name]
BinaryExpression(left, operand, right) ==
  [type |-> "BinaryExpression", left |-> left, operand |-> operand, right |-> right]
AssignmentExpression(name, value) ==
  [value |-> value, type |-> "AssignmentExpression", name |-> name]
VariableDeclaration(name, value) ==
  [value |-> value, type |-> "VariableDeclaration", name |-> name]

\* -------------------------------------------------------- Environment
\* HashMap::contains_key
contains_key(hashmap, name) == name \in DOMAIN hashmap

\* HashMap::insert
insert(hashmap, name, value) ==
  [n \in DOMAIN hashmap \cup {name} |-> IF n = name THEN value ELSE hashmap[n]]

\* declare that overwrites a binding it reports as a duplicate
declare_overwrite(hashmap, name, value) ==
  IF contains_key(hashmap, name)
  THEN [hashmap |-> insert(hashmap, name, value),
        res |-> Err("Variable '{}' already declared", <<String(name)>>)]
  ELSE [hashmap |-> insert(hashmap, name, value), res |-> Ok(Null)]

declare(hashmap, name, value) ==
  IF contains_key(hashmap, name)
  THEN [hashmap |-> hashmap,
        res |-> Err("Variable '{}' already declared", <<String(name)>>)]
  ELSE [hashmap |-> insert(hashmap, name, value), res |-> Ok(Null)]

\* assign as a plain HashMap::insert: it creates the binding it misses
assign_upsert(hashmap, name, value) ==
  [hashmap |-> insert(hashmap, name, value), res |-> Ok(Null)]

assign(hashmap, name, value) ==
  IF contains_key(hashmap, name)
  THEN [hashmap |-> insert(hashmap, name, value), res |-> Ok(Null)]
  ELSE [hashmap |-> hashmap,
        res |-> Err("Variable '{}' does not exist.", <<String(name)>>)]

\* Option<RuntimeValue>: Some(value) is Ok(value), None is [tag |-> "None"]
lookup(hashmap, name) ==
  IF name \in DOMAIN hashmap THEN Ok(hashmap[name]) ELSE [tag |-> "None"]

\* ------------------------------------------------- integer arithmetic
VARIABLES env, node, result, visited, before, calls, overflow_checks

vars == <<env, node, result, visited, before, calls, overflow_checks>>

InRange(n) == IntMin <= n /\ n <= IntMax
Wrap(n) == ((n - IntMin) % (2 ^ IntBits)) + IntMin

\* l + r, l - r, l * r on i128: n is the mathematical result
int_arith(n, what) ==
  IF InRange(n) THEN Ok(Integer(n))
  ELSE IF overflow_checks THEN Panic("attempt to " \o what \o " with overflow")
  ELSE Ok(Integer(Wrap(n)))

\* l % r on i128: truncated remainder, its sign follows the dividend
int_rem(l, r) ==
  IF r = 0
  THEN Panic("attempt to calculate the remainder with a divisor of zero")
  ELSE IF l = IntMin /\ r = -1
  THEN Panic("attempt to calculate the remainder with overflow")
  ELSE Ok(Integer((IF l < 0 THEN -1 ELSE 1) * (Abs(l) % Abs(r))))

\* base^exp by wrapping products; over is set once a product left the range,
\* which happens exactly when the mathematical power is out of range
RECURSIVE pow_loop(_, _, _, _)
pow_loop(base, exp, acc, over) ==
  IF exp = 0 THEN [acc |-> acc, over |-> over]
  ELSE pow_loop(base, exp - 1, Wrap(acc * base), over \/ ~InRange(acc * base))

\* pow on the magnitude of the exponent: l.pow(r.unsigned_abs())
int_pow_abs(l, r) ==
  IF Abs(r) > ExpMax
  THEN Panic("called Result::unwrap() on an Err value: TryFromIntError")
  ELSE LET p == pow_loop(l, Abs(r), 1, FALSE)
       IN IF p.over /\ overflow_checks
          THEN Panic("attempt to multiply with overflow")
          ELSE Ok(Integer(p.acc))

\* l.pow(r.try_into().unwrap())
int_pow(l, r) ==
  IF r < 0 \/ r > ExpMax
  THEN Panic("called Result::unwrap() on an Err value: TryFromIntError")
  ELSE LET p == pow_loop(l, r, 1, FALSE)
       IN IF p.over /\ overflow_checks
          THEN Panic("attempt to multiply with overflow")
          ELSE Ok(Integer(p.acc))

\* ------------------------------------------------- binary operators
FloatResult(f) == IF f.cls = "oob" THEN OutOfModel ELSE Ok(f)

IncompatibleTypes(left, right) ==
  Err("Incompatible types: '{:?}' and '{:?}'", <<left, right>>)

\* the four numeric arms shared by + - * ^ and /
Kinds(left, right) == <<left.kind, right.kind>>

\* + that also accepts a String on the left
op_add_concat(left, right) ==
  CASE Kinds(left, right) = <<"Integer", "Integer">> ->
         int_arith(left.i + right.i, "add")
    [] Kinds(left, right) = <<"Integer", "Float">> ->
         FloatResult(FAdd(IntToFloat(left.i), right))
    [] Kinds(left, right) = <<"Float", "Integer">> ->
         FloatResult(FAdd(left, IntToFloat(right.i)))
    [] Kinds(left, right) = <<"Float", "Float">> -> FloatResult(FAdd(left, right))
    [] left.kind = "String" -> Ok(left)
    [] OTHER -> IncompatibleTypes(left, right)

op_add(left, right) ==
  CASE Kinds(left, right) = <<"Integer", "Integer">> ->
         int_arith(left.i + right.i, "add")
    [] Kinds(left, right) = <<"Integer", "Float">> ->
         FloatResult(FAdd(IntToFloat(left.i), right))
    [] Kinds(left, right) = <<"Float", "Integer">> ->
         FloatResult(FAdd(left, IntToFloat(right.i)))
    [] Kinds(left, right) = <<"Float", "Float">> -> FloatResult(FAdd(left, right))
    [] OTHER -> IncompatibleTypes(left, right)

op_sub(left, right) ==
  CASE Kinds(left, right) = <<"Integer", "Integer">> ->
         int_arith(left.i - right.i, "subtract")
    [] Kinds(left, right) = <<"Integer", "Float">> ->
         FloatResult(FSub(IntToFloat(left.i), right))
    [] Kinds(left, right) = <<"Float", "Integer">> ->
         FloatResult(FSub(left, IntToFloat(right.i)))
    [] Kinds(left, right) = <<"Float", "Float">> -> FloatResult(FSub(left, right))
    [] OTHER -> IncompatibleTypes(left, right)

op_mul(left, right) ==
  CASE Kinds(left, right) = <<"Integer", "Integer">> ->
         int_arith(left.i * right.i, "multiply")
    [] Kinds(left, right) = <<"Integer", "Float">> ->
         FloatResult(FMul(IntToFloat(left.i), right))
    [] Kinds(left, right) = <<"Float", "Integer">> ->
         FloatResult(FMul(left, IntToFloat(right.i)))
    [] Kinds(left, right) = <<"Float", "Float">> -> FloatResult(FMul(left, right))
    [] OTHER -> IncompatibleTypes(left, right)

\* / that stays in the integers for two Integers
op_div_int(left, right) ==
  CASE Kinds(left, right) = <<"Integer", "Integer">> ->
         IF right.i = 0 THEN Panic("attempt to divide by zero")
         ELSE Ok(Integer((IF (left.i < 0) = (right.i < 0) THEN 1 ELSE -1)
                           * (Abs(left.i) \div Abs(right.i))))
    [] Kinds(left, right) = <<"Integer", "Float">> ->
         FloatResult(FDiv(IntToFloat(left.i), right))
    [] Kinds(left, right) = <<"Float", "Integer">> ->
         FloatResult(FDiv(left, IntToFloat(right.i)))
    [] Kinds(left, right) = <<"Float", "Float">> -> FloatResult(FDiv(left, right))
    [] OTHER -> IncompatibleTypes(left, right)

op_div(left, right) ==
  CASE Kinds(left, right) = <<"Integer", "Integer">> ->
         FloatResult(FDiv(IntToFloat(left.i), IntToFloat(right.i)))
    [] Kinds(left, right) = <<"Integer", "Float">> ->
         FloatResult(FDiv(IntToFloat(left.i), right))
    [] Kinds(left, right) = <<"Float", "Integer">> ->
         FloatResult(FDiv(left, IntToFloat(right.i)))
    [] Kinds(left, right) = <<"Float", "Float">> -> FloatResult(FDiv(left, right))
    [] OTHER -> IncompatibleTypes(left, right)

op_rem(left, right) ==
  CASE Kinds(left, right) = <<"Integer", "Integer">> -> int_rem(left.i, right.i)
    [] OTHER -> IncompatibleTypes(left, right)

op_pow(left, right) ==
  CASE Kinds(left, right) = <<"Integer", "Integer">> -> int_pow(left.i, right.i)
    [] Kinds(left, right) = <<"Integer", "Float">> ->
         FloatResult(FPow(IntToFloat(left.i), right))
    [] Kinds(left, right) = <<"Float", "Integer">> ->
         FloatResult(FPow(left, IntToFloat(right.i)))
    [] Kinds(left, right) = <<"Float", "Float">> -> FloatResult(FPow(left, right))
    [] OTHER -> IncompatibleTypes(left, right)

\* a match whose fallback arm rejects the operator
match_operand_strict(operand, left, right) ==
  CASE operand = "+" -> op_add(left, right)
    [] operand = "-" -> op_sub(left, right)
    [] operand = "*" -> op_mul(left, right)
    [] operand = "/" -> op_div(left, right)
    [] operand = "%" -> op_rem(left, right)
    [] operand = "^" -> op_pow(left, right)
    [] OTHER -> Err("Unknown operator '{}'", <<String(operand)>>)

\* match operand { '+' => .. '^' => .., _ => Ok(Null) }
match_operand(operand, left, right) ==
  CASE operand = "+" -> op_add(left, right)
    [] operand = "-" -> op_sub(left, right)
    [] operand = "*" -> op_mul(left, right)
    [] operand = "/" -> op_div(left, right)
    [] operand = "%" -> op_rem(left, right)
    [] operand = "^" -> op_pow(left, right)
    [] OTHER -> Ok(Null)

\* ---------------------------------------------------------- evaluate
\* An outcome is [env, res, visited]: the environment when the call ended
\* (by return or by panic), what it returned, and the nodes evaluate was
\* entered with, in order.
Outcome(e, r, v) == [env |-> e, res |-> r, visited |-> v]

RECURSIVE evaluate(_, _)
RECURSIVE scope_loop(_, _, _, _)
RECURSIVE evaluate_binary_expression(_, _, _, _)
RECURSIVE evaluate_assignment_expression(_, _, _)
RECURSIVE evaluate_variable_declaration(_, _, _)

\* a loop that runs every statement on the environment the Scope began with
RECURSIVE scope_loop_no_thread(_, _, _, _)
scope_loop_no_thread(statements, e, res, seen) ==
  IF statements = <<>> THEN Outcome(e, res, seen)
  ELSE LET o == evaluate(Head(statements), e)
       IN IF o.res.tag # "Ok" THEN Outcome(o.env, o.res, seen \o o.visited)
          ELSE scope_loop_no_thread(Tail(statements), e, o.res, seen \o o.visited)

\* for statement in statements { result = evaluate(statement, env)?; }
scope_loop(statements, e, res, seen) ==
  IF statements = <<>> THEN Outcome(e, res, seen)
  ELSE LET o == evaluate(Head(statements), e)
       IN IF o.res.tag # "Ok" THEN Outcome(o.env, o.res, seen \o o.visited)
          ELSE scope_loop(Tail(statements), o.env, o.res, seen \o o.visited)

\* a lookup that takes the value out of the map (HashMap::remove)
evaluate_identifier_take(name, e) ==
  LET found == lookup(e, name)
  IN IF found.tag = "Ok"
     THEN Outcome([n \in DOMAIN e \ {name} |-> e[n]], Ok(found.value), <<>>)
     ELSE Outcome(e, Err("Variable '{}' does not exist", <<String(name)>>), <<>>)

evaluate_identifier(name, e) ==
  LET found == lookup(e, name)
  IN IF found.tag = "Ok" THEN Outcome(e, Ok(found.value), <<>>)
     ELSE Outcome(e, Err("Variable '{}' does not exist", <<String(name)>>), <<>>)

evaluate_variable_declaration(name, value, e) ==
  IF name.type = "Identifier"
  THEN LET o == evaluate(value, e)
       IN IF o.res.tag # "Ok" THEN o
          ELSE LET d == declare(o.env, name.name, o.res.value)
               IN IF d.res.tag = "Err" THEN Outcome(d.hashmap, d.res, o.visited)
                  ELSE Outcome(d.hashmap, Ok(o.res.value), o.visited)
  ELSE Outcome(e, Err("Expected a string value", <<>>), <<>>)

evaluate_assignment_expression(name, value, e) ==
  IF name.type = "Identifier"
  THEN LET o == evaluate(value, e)
       IN IF o.res.tag # "Ok" THEN o
          ELSE LET a == assign(o.env, name.name, o.res.value)
               IN IF a.res.tag = "Err" THEN Outcome(a.hashmap, a.res, o.visited)
                  ELSE Outcome(a.hashmap, Ok(o.res.value), o.visited)
  ELSE Outcome(e, Err("Expected a string value, found '{:?}'", <<name>>), <<>>)

\* both operands evaluated before either Result is inspected
evaluate_binary_expression_eager(left, operand, right, environment) ==
  LET l == evaluate(left, environment)
      r == evaluate(right, l.env)
  IN IF l.res.tag # "Ok" THEN Outcome(r.env, l.res, l.visited \o r.visited)
     ELSE IF r.res.tag # "Ok" THEN Outcome(r.env, r.res, l.visited \o r.visited)
     ELSE Outcome(r.env,
                  match_operand(operand, l.res.value, r.res.value),
                  l.visited \o r.visited)

evaluate_binary_expression(left, operand, right, environment) ==
  LET l == evaluate(left, environment)
  IN IF l.res.tag # "Ok" THEN l
     ELSE LET r == evaluate(right, l.env)
          IN IF r.res.tag # "Ok" THEN Outcome(r.env, r.res, l.visited \o r.visited)
             ELSE Outcome(r.env,
                          match_operand(operand, l.res.value, r.res.value),
                          l.visited \o r.visited)

evaluate_dispatch(n, e) ==
  CASE n.type = "Scope" -> scope_loop(n.body, e, Ok(Null), <<>>)
    [] n.type = "IntegerLiteral" -> Outcome(e, Ok(Integer(n.i)), <<>>)
    [] n.type = "StringLiteral" -> Outcome(e, Ok(String(n.s)), <<>>)
    [] n.type = "FloatLiteral" -> Outcome(e, Ok(n.f), <<>>)
    [] n.type = "Identifier" -> evaluate_identifier(n.name, e)
    [] n.type = "BinaryExpression" ->
         evaluate_binary_expression(n.left, n.operand, n.right, e)
    [] n.type = "AssignmentExpression" ->
         evaluate_assignment_expression(n.name, n.value, e)
    [] n.type = "VariableDeclaration" ->
         evaluate_variable_declaration(n.name, n.value, e)

evaluate(n, e) ==
  [evaluate_dispatch(n, e) EXCEPT !.visited = <<n>> \o @]

\* ------------------------------------------------------------ inputs
Empty == [n \in {} |-> Null]
Half == Float("fin", FALSE, 1, 2)
MinusTwo == Float("fin", TRUE, 2, 1)

IntLits == {-1, 0, 2, 5}
FloatLits == {FZero(FALSE), MinusTwo}
StrLits == {"a"}
Operators == {"+", "-", "*", "/", "%", "^", "&"}

\* environments the caller hands over: empty, or pre-populated
InitEnvs ==
  { Empty,
    [n \in {"x"} |-> Boolean(TRUE)],
    [n \in {"x", "y"} |-> IF n = "x" THEN Integer(2) ELSE Array(<<Integer(1)>>)] }

Literals ==
  {IntegerLiteral(i) : i \in IntLits} \cup {FloatLiteral(f) : f \in FloatLits}
    \cup {StringLiteral(s) : s \in StrLits}

\* nodes that change the environment when they succeed
Effects ==
  { VariableDeclaration(Identifier("y"), IntegerLiteral(2)),
    AssignmentExpression(Identifier("x"), IntegerLiteral(5)) }

Operands ==
  Literals
    \cup { Identifier("x"), Scope(<<>>),
           VariableDeclaration(Identifier("y"), IntegerLiteral(2)) }

ValueExprs ==
  { IntegerLiteral(2), FloatLiteral(Half), Identifier("y"), Scope(<<>>),
    BinaryExpression(StringLiteral("a"), "+", IntegerLiteral(1)),
    BinaryExpression(IntegerLiteral(5), "%", IntegerLiteral(0)) }
    \cup Effects

NameSlots == {Identifier(n) : n \in Names} \cup {StringLiteral("a")}

Statements ==
  { VariableDeclaration(Identifier("x"), IntegerLiteral(1)),
    AssignmentExpression(Identifier("x"),
                         BinaryExpression(Identifier("x"), "+", IntegerLiteral(1))),
    Identifier("x"),
    BinaryExpression(IntegerLiteral(1), "+", StringLiteral("a")) }

Bodies == UNION {[1..k -> Statements] : k \in 0..MaxBody}

\* ----------------------------------------------------- state machine
NoCall == [tag |-> "None"]
NoNode == [type |-> "None"]

Init ==
  /\ env \in InitEnvs
  /\ node = NoNode
  /\ result = NoCall
  /\ visited = <<>>
  /\ before = env
  /\ calls = 0
  /\ overflow_checks \in BOOLEAN

\* one call evaluate(n, &mut env) by the host, which holds no earlier
\* result; a panic ends the run
Call(n) ==
  /\ calls < MaxCalls
  /\ result = NoCall
  /\ \E o \in {evaluate(n, env)} :
        /\ o.res.tag # "OutOfModel"
        /\ env' = o.env
        /\ result' = o.res
        /\ visited' = o.visited
  /\ node' = n
  /\ before' = env
  /\ calls' = calls + 1
  /\ UNCHANGED overflow_checks

\* the host takes the Result of the call; the environment stays with it
Return ==
  /\ result.tag \in {"Ok", "Err"}
  /\ node' = NoNode
  /\ result' = NoCall
  /\ visited' = <<>>
  /\ before' = env
  /\ UNCHANGED <<env, calls, overflow_checks>>

EvaluateScope == \E body \in Bodies : Call(Scope(body))

EvaluateIntegerLiteral == \E i \in IntLits : Call(IntegerLiteral(i))

EvaluateStringLiteral == \E s \in StrLits : Call(StringLiteral(s))

EvaluateFloatLiteral == \E f \in FloatLits : Call(FloatLiteral(f))

EvaluateIdentifier == \E n \in Names : Call(Identifier(n))

EvaluateBinaryExpression ==
  \E l \in Operands, op \in Operators, r \in Operands :
    Call(BinaryExpression(l, op, r))

EvaluateAssignmentExpression ==
  \E n \in NameSlots, v \in ValueExprs : Call(AssignmentExpression(n, v))

EvaluateVariableDeclaration ==
  \E n \in NameSlots, v \in ValueExprs : Call(VariableDeclaration(n, v))

Next ==
  \/ EvaluateScope
  \/ EvaluateIntegerLiteral
  \/ EvaluateStringLiteral
  \/ EvaluateFloatLiteral
  \/ EvaluateIdentifier
  \/ EvaluateBinaryExpression
  \/ EvaluateAssignmentExpression
  \/ EvaluateVariableDeclaration
  \/ Return

Spec == Init /\ [][Next]_vars

\* ------------------------------------------------- shared by the claims
\* In a state reached by Call, node is the node the host passed, before the
\* environment it passed, env the environment afterwards, result what the
\* call produced and visited the nodes evaluate was entered with.
IsBinary == node.type = "BinaryExpression"
Arithmetic == {"+", "-", "*", "/", "%", "^"}
LeftOut == evaluate(node.left, before)
RightOut == evaluate(node.right, LeftOut.env)
BothOk == IsBinary /\ LeftOut.res.tag = "Ok" /\ RightOut.res.tag = "Ok"
LV == LeftOut.res.value
RV == RightOut.res.value
Numeric(v) == v.kind \in {"Integer", "Float"}
ValueOut == evaluate(node.value, before)
Named(type) ==
  node.type = type /\ node.name.type = "Identifier"
Visits(type, n) ==
  \E i \in 1..Len(visited) :
    visited[i].type = type /\ visited[i].name = Identifier(n)
AlreadyDeclared(n) == Err("Variable '{}' already declared", <<String(n)>>)
DoesNotExist(n) == Err("Variable '{}' does not exist.", <<String(n)>>)

\* the environment after the first k statements of a body, run one by one
RECURSIVE EnvAfter(_, _, _)
EnvAfter(stmts, k, e) ==
  IF k = 0 THEN e ELSE evaluate(stmts[k], EnvAfter(stmts, k - 1, e)).env
StmtOut(stmts, k, e) == evaluate(stmts[k], EnvAfter(stmts, k - 1, e))
RECURSIVE VisitsUpTo(_, _, _)
VisitsUpTo(stmts, k, e) ==
  IF k = 0 THEN <<>>
  ELSE VisitsUpTo(stmts, k - 1, e) \o StmtOut(stmts, k, e).visited

\* v = l^r over the integers, by exact division (no product is formed)
RECURSIVE IsPower(_, _, _)
IsPower(v, l, r) ==
  IF r = 0 THEN v = 1
  ELSE IF l = 0 THEN v = 0
  ELSE /\ Abs(v) % Abs(l) = 0
       /\ IsPower((IF (v < 0) = (l < 0) THEN 1 ELSE -1) * (Abs(v) \div Abs(l)),
                  l, r - 1)
Representable(l, r) == \E v \in IntMin..IntMax : IsPower(v, l, r)

\* --------------------------------------------------------------- C1
\* C1: an Integer % Integer expression whose right operand is 0 comes back
\* from evaluate as an error result: not a panic, not Null, not a value.
C1_ModuloByZeroIsErr ==
  (/\ IsBinary
   /\ node.operand = "%"
   /\ node.left.type = "IntegerLiteral"
   /\ node.right = IntegerLiteral(0))
    => result.tag = "Err"

\* --------------------------------------------------------------- C2
\* C2 as stated: declaring a name that is bound, with a value expression
\* that evaluates, fails with "already declared" and the binding keeps the
\* value it had before the VariableDeclaration was evaluated.
C2_Original ==
  (/\ Named("VariableDeclaration")
   /\ node.name.name \in DOMAIN before
   /\ ValueOut.res.tag = "Ok")
    => /\ result = AlreadyDeclared(node.name.name)
       /\ env[node.name.name] = before[node.name.name]

\* C2 amended: the declaration fails with "already declared" and declare
\* changes nothing: the environment is the one the value expression left,
\* so the binding keeps its earlier value unless the value expression
\* itself assigned the name.
C2_DuplicateDeclaration ==
  (/\ Named("VariableDeclaration")
   /\ node.name.name \in DOMAIN before
   /\ ValueOut.res.tag = "Ok")
    => /\ result = AlreadyDeclared(node.name.name)
       /\ env = ValueOut.env
       /\ ~Visits("AssignmentExpression", node.name.name)
            => env[node.name.name] = before[node.name.name]

C2_Witness ==
  /\ node = VariableDeclaration(Identifier("x"), IntegerLiteral(2))
  /\ before = [n \in {"x"} |-> Boolean(TRUE)]
  /\ result = AlreadyDeclared("x")

\* --------------------------------------------------------------- C3
\* C3 as stated: assigning to a name that is not bound, with a value
\* expression that evaluates, fails with "does not exist" and leaves the
\* environment as it was before the evaluation started.
C3_Original ==
  (/\ Named("AssignmentExpression")
   /\ node.name.name \notin DOMAIN before
   /\ ValueOut.res.tag = "Ok")
    => /\ result = DoesNotExist(node.name.name)
       /\ env = before

\* C3 amended: when the name is still unbound once the value expression has
\* been evaluated, the assignment fails with "does not exist" and assign
\* changes nothing: the environment is the one the value expression left
\* (the one before the evaluation when the value expression holds no
\* declaration or assignment), and the name stays unbound.
C3_UnknownVariable ==
  (/\ Named("AssignmentExpression")
   /\ ValueOut.res.tag = "Ok"
   /\ node.name.name \notin DOMAIN ValueOut.env)
    => /\ result = DoesNotExist(node.name.name)
       /\ env = ValueOut.env
       /\ node.name.name \notin DOMAIN env
       /\ (\A i \in 1..Len(visited) :
             visited[i].type \notin {"VariableDeclaration", "AssignmentExpression"}
               \/ i = 1)
            => env = before

C3_Witness ==
  /\ node = AssignmentExpression(Identifier("y"), IntegerLiteral(2))
  /\ before = [n \in {"x"} |-> Boolean(TRUE)]
  /\ result = DoesNotExist("y")
  /\ env = before

\* --------------------------------------------------------------- C4
\* C4: over any sequence of calls no bound name is removed, a name is added
\* only when a VariableDeclaration of that name was evaluated, an Identifier
\* lookup changes nothing, and between calls the environment is untouched.
C4_OnlyDeclareBinds ==
  /\ DOMAIN before \subseteq DOMAIN env
  /\ \A n \in DOMAIN env \ DOMAIN before : Visits("VariableDeclaration", n)
  /\ node.type \in {"Identifier", "IntegerLiteral", "FloatLiteral", "StringLiteral"}
       => env = before
  /\ result = NoCall => env = before

C4_Witness ==
  /\ calls = 2
  /\ node.type = "AssignmentExpression"
  /\ result.tag = "Ok"
  /\ "y" \in DOMAIN env \ DOMAIN before
  /\ "x" \in DOMAIN before

\* --------------------------------------------------------------- C5
\* C5: a Scope runs its statements in order on one environment, each seeing
\* what the earlier ones left; when all succeed its value is the last
\* statement's value, Null for an empty body; { let x = 1; x = x + 1; x }
\* on an environment without x yields Integer(2).
C5_ScopeSequencing ==
  node.type = "Scope" =>
    /\ node.body = <<>> => (result = Ok(Null) /\ env = before)
    /\ (result.tag = "Ok" /\ node.body # <<>>) =>
         /\ result = StmtOut(node.body, Len(node.body), before).res
         /\ env = EnvAfter(node.body, Len(node.body), before)
    /\ (/\ Len(node.body) = 3
        /\ "x" \notin DOMAIN before
        /\ node.body[1] = VariableDeclaration(Identifier("x"), IntegerLiteral(1))
        /\ node.body[2].type = "AssignmentExpression"
        /\ node.body[3] = Identifier("x"))
         => (result = Ok(Integer(2)) /\ env["x"] = Integer(2))

C5_Witness ==
  /\ node.type = "Scope"
  /\ Len(node.body) = 3
  /\ node.body[1].type = "VariableDeclaration"
  /\ node.body[2].type = "AssignmentExpression"
  /\ node.body[3] = Identifier("x")
  /\ result = Ok(Integer(2))

\* --------------------------------------------------------------- C6
\* C6: the first failure in evaluation order is what evaluate returns and
\* nothing is evaluated after it: a failed left operand ends a
\* BinaryExpression before its right operand, a failed statement ends a
\* Scope, a failed value expression ends a declaration or assignment
\* before declare or assign.
C6_FirstErrorWins ==
  /\ (IsBinary /\ LeftOut.res.tag # "Ok") =>
       /\ result = LeftOut.res
       /\ env = LeftOut.env
       /\ visited = <<node>> \o LeftOut.visited
  /\ (IsBinary /\ LeftOut.res.tag = "Ok" /\ RightOut.res.tag # "Ok") =>
       /\ result = RightOut.res
       /\ visited = <<node>> \o LeftOut.visited \o RightOut.visited
  /\ (node.type = "Scope" /\ result.tag \notin {"Ok", "None"}) =>
       \E k \in 1..Len(node.body) :
         /\ \A j \in 1..(k - 1) : StmtOut(node.body, j, before).res.tag = "Ok"
         /\ result = StmtOut(node.body, k, before).res
         /\ env = EnvAfter(node.body, k, before)
         /\ visited = <<node>> \o VisitsUpTo(node.body, k, before)
  /\ ((Named("VariableDeclaration") \/ Named("AssignmentExpression"))
        /\ ValueOut.res.tag # "Ok") =>
       /\ result = ValueOut.res
       /\ env = ValueOut.env

C6_Witness ==
  /\ IsBinary
  /\ node.left = Identifier("x")
  /\ node.right = VariableDeclaration(Identifier("y"), IntegerLiteral(2))
  /\ result = Err("Variable '{}' does not exist", <<String("x")>>)
  /\ env = Empty

\* --------------------------------------------------------------- C7
\* C7: for + - * / % ^ with both operands evaluated, an operand that is
\* neither Integer nor Float, on either side, gives "Incompatible types";
\* for % a Float operand gives the same.
C7_IncompatibleTypes ==
  (/\ BothOk
   /\ node.operand \in Arithmetic
   /\ \/ ~Numeric(LV)
      \/ ~Numeric(RV)
      \/ (node.operand = "%" /\ "Float" \in {LV.kind, RV.kind}))
    => result = Err("Incompatible types: '{:?}' and '{:?}'", <<LV, RV>>)

C7_Witness ==
  /\ BothOk
  /\ node.operand = "^"
  /\ LV.kind = "Integer"
  /\ RV.kind = "Boolean"
  /\ result.tag = "Err"

\* --------------------------------------------------------------- C8
\* C8 as stated: on numeric operands + - * ^ give an Integer for two
\* Integers and a Float when an operand is a Float, and / always gives a
\* Float, a zero divisor included.
C8_Original ==
  (BothOk /\ Numeric(LV) /\ Numeric(RV)) =>
    /\ (node.operand \in {"+", "-", "*", "^"} /\ "Float" \notin {LV.kind, RV.kind})
         => (result.tag = "Ok" /\ result.value.kind = "Integer")
    /\ (node.operand \in {"+", "-", "*", "^"} /\ "Float" \in {LV.kind, RV.kind})
         => (result.tag = "Ok" /\ result.value.kind = "Float")
    /\ node.operand = "/" => (result.tag = "Ok" /\ result.value.kind = "Float")

\* C8 amended: the same, except that + - * ^ on two Integers may fault
\* instead of yielding a value (overflow in a build with overflow checks,
\* an exponent that is negative or too large); they never return an error
\* and a value they yield is an Integer.
C8_ResultKinds ==
  (BothOk /\ Numeric(LV) /\ Numeric(RV)) =>
    /\ (node.operand \in {"+", "-", "*", "^"} /\ "Float" \notin {LV.kind, RV.kind})
         => /\ result.tag \in {"Ok", "Panic"}
            /\ result.tag = "Ok" => result.value.kind = "Integer"
            /\ result.tag = "Panic" =>
                 \/ overflow_checks
                 \/ (node.operand = "^" /\ (RV.i < 0 \/ RV.i > ExpMax))
    /\ (node.operand \in {"+", "-", "*", "^"} /\ "Float" \in {LV.kind, RV.kind})
         => (result.tag = "Ok" /\ result.value.kind = "Float")
    /\ node.operand = "/" => (result.tag = "Ok" /\ result.value.kind = "Float")

C8_Witness ==
  /\ node = BinaryExpression(IntegerLiteral(5), "/", IntegerLiteral(0))
  /\ result = Ok(FInf(FALSE))

\* --------------------------------------------------------------- C9
\* C9 as stated: Integer l ^ Integer r is Integer(l to the power r) when
\* r >= 0 fits the exponent type, and a fault (no value, no error) when
\* r < 0.
C9_Original ==
  (BothOk /\ node.operand = "^" /\ LV.kind = "Integer" /\ RV.kind = "Integer") =>
    /\ (0 <= RV.i /\ RV.i <= ExpMax) =>
         /\ result.tag = "Ok"
         /\ result.value.kind = "Integer"
         /\ IsPower(result.value.i, LV.i, RV.i)
    /\ RV.i < 0 => result.tag = "Panic"

\* C9 amended: the result is Integer(l to the power r) when r >= 0 fits the
\* exponent type and the power fits the integer type; when the power does
\* not fit, the evaluation faults in a build with overflow checks and
\* yields a (wrapped) Integer in a build without; when r < 0 or r does not
\* fit the exponent type it faults.
C9_IntegerPower ==
  (BothOk /\ node.operand = "^" /\ LV.kind = "Integer" /\ RV.kind = "Integer") =>
    /\ (0 <= RV.i /\ RV.i <= ExpMax /\ Representable(LV.i, RV.i)) =>
         /\ result.tag = "Ok"
         /\ result.value.kind = "Integer"
         /\ IsPower(result.value.i, LV.i, RV.i)
    /\ (0 <= RV.i /\ RV.i <= ExpMax /\ ~Representable(LV.i, RV.i)) =>
         IF overflow_checks THEN result.tag = "Panic"
         ELSE /\ result.tag = "Ok"
              /\ result.value.kind = "Integer"
              /\ InRange(result.value.i)
              /\ ~IsPower(result.value.i, LV.i, RV.i)
    /\ (RV.i < 0 \/ RV.i > ExpMax) => result.tag = "Panic"

C9_Witness ==
  /\ node = BinaryExpression(IntegerLiteral(2), "^", IntegerLiteral(2))
  /\ result = Ok(Integer(4))

\* -------------------------------------------------------------- C10
\* C10: with an operator outside + - * / % ^ the left and then the right
\* operand are still evaluated (a failure of either is returned, their
\* changes to the environment stay); when both succeed the result is Null,
\* whatever the operands are.
C10_UnknownOperatorIsNull ==
  (IsBinary /\ node.operand \notin Arithmetic) =>
    /\ LeftOut.res.tag # "Ok" => result = LeftOut.res
    /\ (LeftOut.res.tag = "Ok" /\ RightOut.res.tag # "Ok") =>
         (result = RightOut.res /\ env = RightOut.env)
    /\ BothOk =>
         /\ result = Ok(Null)
         /\ env = RightOut.env
         /\ visited = <<node>> \o LeftOut.visited \o RightOut.visited

C10_Witness ==
  /\ IsBinary
  /\ node.operand = "&"
  /\ node.left = StringLiteral("a")
  /\ node.right = VariableDeclaration(Identifier("y"), IntegerLiteral(2))
  /\ result = Ok(Null)
  /\ "y" \in DOMAIN env \ DOMAIN before

====
